---- MODULE Spec2Model ----
(***************************************************************************)
(* A model of newsarchives: the Facebook feed crawler (crawler.py,         *)
(* FBGraphCrawler) and the article archiver (archiver.py, ArticleSet and   *)
(* NewsArchiver).                                                          *)
(*                                                                         *)
(* The crawler part follows save_all_page_feeds as it drains the generator *)
(* collect_feed_posts for one page after the other; the Graph API and the  *)
(* HTTP HEAD request of unshorten_url are the environment, and each call   *)
(* of them is one step that either succeeds or raises.                     *)
(*                                                                         *)
(* The archiver part follows get_articles: the query of collect_url_data   *)
(* and its chunks, build_articlesets, the news_pool tasks that run         *)
(* ArticleSet.download_articles side by side, the join, and save_articles. *)
(***************************************************************************)
EXTENDS Integers, Sequences, FiniteSets, TLC

\* ------------------------------------------------------------- bounds
\* The pages of one upstream feed, and the posts of all feeds together.
MaxPages == 2
MaxFeedPosts == 3
MaxErrorLimit == 2
\* The calls of save_all_page_feeds a caller makes.
MaxRuns == 2
\* The requests (Graph API and HEAD together) that may raise in one behaviour.
MaxErrors == 3

\* The rows of fb_posts, and the largest chunksize get_articles is given.
MaxRows == 5
MaxChunk == 4

\* ------------------------------------------------------------- values
\* Python's None, and a local name that has not been assigned yet.
None == "None"
\* through_date=None, and a page without paging.next, among numbers.
NoDate == 0
NoCursor == 0
\* A local name is a sequence: empty while unassigned, else its one value.
Unbound == <<>>
Bound(v) == <<v>>
ValueOf(local) == local[1]

\* The page ids a crawler may be built with.
PageIdSet == {"A", "B"}

\* Creation times: an older and a newer one.
Times == {1, 2}
ErrorLimits == 1..MaxErrorLimit

\* The links a post of the upstream feed may carry.
FeedLinks == {"bit.ly/x"}

\* requests.head(url, allow_redirects=True).url: the end of the redirect chain.
FinalUrl(url) ==
  CASE url = "bit.ly/x" -> "a.com/x"
    [] url = "bit.ly/y" -> "b.com/y"
    [] OTHER -> url

\* urlparse(url).netloc
Netloc(url) ==
  CASE url \in {"a.com/x", "a.com/y"} -> "a.com"
    [] url \in {"b.com/x", "b.com/y"} -> "b.com"
    [] url \in {"bit.ly/x", "bit.ly/y"} -> "bit.ly"
    [] OTHER -> ""

\* get_base_url: the netloc of a url, None for no url.
get_base_url(url) == IF url # None THEN Netloc(url) ELSE None

\* What the Graph API may return for one post, its id aside.
PostShapes ==
  [type : {"link"}, link : FeedLinks \cup {None}, created_time : Times]
  \cup [type : {"status"}, link : {None}, created_time : {2}]

\* The data of one page that holds up to n posts.
PageDatas(n) == UNION {[1..k -> PostShapes] : k \in 0..n}

\* The post ids of the upstream feed: page number and place in the page.
PostId(pageNo, k) == pageNo * 10 + k

WithIds(data, pageNo) ==
  [k \in 1..Len(data) |->
     [id |-> PostId(pageNo, k), type |-> data[k].type,
      link |-> data[k].link, created_time |-> data[k].created_time]]

NoResponse == [data |-> <<>>, next |-> NoCursor]

\* ------------------------------------------------------------- state
VARIABLES
  pages,          \* self.pages.values(): the page ids, in the dict's order
  calls,          \* the calls of save_all_page_feeds the caller makes
  error_limit,    \* collect_feed_posts' error_limit
  through_date,   \* save_all_page_feeds' through_date, None when not given
  feed,           \* upstream: per page id, the feed pages revealed so far
  errors,         \* self.errors[page_id]: the errors logged for the page
  consecutive,    \* self.errors['consecutive']
  pc,             \* where save_all_page_feeds / collect_feed_posts stands
  run,            \* calls of save_all_page_feeds so far
  srcIdx,         \* the driver's place in self.pages
  cursor,         \* params: the feed page the next request asks for
  response,       \* the page being filtered
  idx,            \* place of the for loop in response['data']
  parsed_post,    \* the local parsed_post, Unbound before the first link post
  post_data,      \* the records yielded in this crawl, as the driver collects
  endReason,      \* how the last crawl ended
  fetched,        \* history: feed pages fetched successfully in this crawl
  lastFailed,     \* history: the crawl's last request raised
  twoInRow,       \* history: two requests of the crawl raised in a row
  fb_posts_20161012, \* the table save_all_page_feeds appends to
  gen2            \* a second collect_feed_posts generator of the same crawler

\* What a behaviour starts with and never changes.
config == <<pages, calls, error_limit, through_date>>
outcomeHist == <<lastFailed, twoInRow>>

VARIABLES
  fb_posts,       \* the table collect_url_data reads
  chunksize,      \* get_articles' chunksize, NoChunk when not given
  acalls,         \* the calls of get_articles the caller makes
  arun,           \* calls of get_articles so far
  apc,            \* where get_articles stands
  pub_url_data,   \* the chunks collect_url_data returned
  batchNo,        \* the chunk the for loop of get_articles is at
  articlesets,    \* the ArticleSets built of the chunk
  pending,        \* news_pool: the tasks set() queued that are not done yet
  articles,       \* the table save_articles appends to
  extractable     \* history: the articles whose extraction succeeds

archConfig == <<fb_posts, chunksize, acalls>>

archVars ==
  <<archConfig, arun, apc, pub_url_data, batchNo, articlesets, pending,
    articles, extractable>>

crawlVars ==
  <<config, feed, errors, consecutive, pc, run, srcIdx, cursor, response, idx,
    parsed_post, post_data, endReason, fetched, outcomeHist,
    fb_posts_20161012, gen2>>

vars == <<crawlVars, archVars>>

page_id == IF srcIdx \in 1..Len(pages) THEN pages[srcIdx] ELSE None

\* ------------------------------------------------------------- Init
\* __init__: no error logged for any page; nothing crawled yet.
InitCrawlOf(pageList, nCalls) ==
  /\ pages = pageList
  /\ calls = nCalls
  /\ error_limit \in ErrorLimits
  /\ through_date \in Times \cup {NoDate}
  /\ feed = [p \in PageIdSet |-> <<>>]
  /\ errors = [p \in {pageList[i] : i \in 1..Len(pageList)} |-> <<>>]
  /\ consecutive = 0
  /\ pc = "idle"
  /\ run = 0
  /\ srcIdx = 0
  /\ cursor = 0
  /\ response = NoResponse
  /\ idx = 0
  /\ parsed_post = Unbound
  /\ post_data = <<>>
  /\ endReason = "none"
  /\ fetched = <<>>
  /\ lastFailed = FALSE
  /\ twoInRow = FALSE
  /\ fb_posts_20161012 = <<>>
  /\ gen2 = "none"

\* The errors logged so far, over all pages.
RECURSIVE TotalErrors(_)
TotalErrors(ps) ==
  IF ps = {} THEN 0
  ELSE LET p == CHOOSE q \in ps : TRUE
       IN Len(errors[p]) + TotalErrors(ps \ {p})

\* The environment may still make a request raise.
MayRaise == TotalErrors(DOMAIN errors) < MaxErrors

\* History of the requests' outcomes, kept apart from the crawler's own count.
NoteRaised ==
  /\ lastFailed' = TRUE
  /\ twoInRow' = (twoInRow \/ lastFailed)

NoteAnswered ==
  /\ lastFailed' = FALSE
  /\ twoInRow' = twoInRow

\* ------------------------------------------------------------- log_error
\* A log_error that keeps only the last error of the page.
LogErrorOverwrites(p, error) ==
  /\ errors' = [errors EXCEPT ![p] = <<error>>]
  /\ consecutive' = consecutive + 1

\* log_error(page_id, error): one more entry for the page, one more
\* consecutive error.
LogError(p, error) ==
  /\ errors' = [errors EXCEPT ![p] = Append(@, error)]
  /\ consecutive' = consecutive + 1

\* A log_error whose reset leaves the consecutive count as it is.
LogResetKeepsCount(p) ==
  /\ errors' = errors
  /\ consecutive' = consecutive

\* log_error(page_id, reset=True): the consecutive count back to zero; the
\* entries stay.
LogReset(p) ==
  /\ errors' = errors
  /\ consecutive' = 0

\* ------------------------------------------------------------- driver
\* save_all_page_feeds is called.
SaveAllPageFeeds ==
  /\ pc = "idle"
  /\ run < calls
  /\ run' = run + 1
  /\ srcIdx' = 1
  /\ pc' = "driver"
  /\ UNCHANGED <<config, feed, errors, consecutive, cursor, response, idx,
                 parsed_post, post_data, endReason, fetched,
                 fb_posts_20161012, outcomeHist, gen2, archVars>>

\* The for loop takes the next page and starts collect_feed_posts on it:
\* first-page params, the consecutive count set to zero.
StartCrawl ==
  /\ pc = "driver"
  /\ srcIdx <= Len(pages)
  /\ cursor' = 1
  /\ consecutive' = 0
  /\ response' = NoResponse
  /\ idx' = 0
  /\ parsed_post' = Unbound
  /\ post_data' = <<>>
  /\ endReason' = "none"
  /\ fetched' = <<>>
  /\ lastFailed' = FALSE
  /\ twoInRow' = FALSE
  /\ pc' = "fetching"
  /\ UNCHANGED <<config, feed, errors, run, srcIdx, fb_posts_20161012,
                 gen2, archVars>>

\* The for loop has no page left: save_all_page_feeds returns.
DriverReturn ==
  /\ pc = "driver"
  /\ srcIdx > Len(pages)
  /\ pc' = "idle"
  /\ UNCHANGED <<config, feed, errors, consecutive, run, srcIdx, cursor,
                 response, idx, parsed_post, post_data, endReason, fetched,
                 fb_posts_20161012, outcomeHist, gen2, archVars>>

\* ------------------------------------------------------------- Graph API
\* The posts on the pages of a feed.
RECURSIVE FeedPosts(_)
FeedPosts(f) ==
  IF f = <<>> THEN 0
  ELSE Len(f[Len(f)].data) + FeedPosts(SubSeq(f, 1, Len(f) - 1))

\* The posts revealed so far, over the feeds of all pages.
RECURSIVE UpstreamPosts(_)
UpstreamPosts(ps) ==
  IF ps = {} THEN 0
  ELSE LET p == CHOOSE q \in ps : TRUE
       IN FeedPosts(feed[p]) + UpstreamPosts(ps \ {p})

\* What graph.get_connections(page_id, 'posts', **params) may answer for feed
\* page number c of page p: a page revealed before is returned as it was; a new
\* one may hold any posts, and names a next page unless the feed ends there.
Responses(p, c) ==
  IF c <= Len(feed[p])
  THEN {feed[p][c]}
  ELSE {[data |-> WithIds(d, c), next |-> n] :
          d \in PageDatas(MaxFeedPosts - UpstreamPosts(DOMAIN feed)),
          n \in (IF c < MaxPages THEN {c + 1} ELSE {}) \cup {NoCursor}}

Reveal(p, c, page) ==
  IF c <= Len(feed[p]) THEN feed ELSE [feed EXCEPT ![p] = Append(@, page)]

\* ------------------------------------------------- collect_feed_posts
\* The while condition: go on while the consecutive errors are below the limit.
WithinErrorLimit == consecutive < error_limit

\* A failed request after which the crawl goes on with the page after.
FetchFailSkipsPage ==
  /\ pc = "fetching"
  /\ WithinErrorLimit
  /\ MayRaise
  /\ LogError(page_id, "GraphAPIError")
  /\ NoteRaised
  /\ cursor' = cursor + 1
  /\ UNCHANGED <<config, feed, pc, run, srcIdx, response, idx, parsed_post,
                 post_data, endReason, fetched, fb_posts_20161012, gen2,
                 archVars>>

\* The request raises GraphAPIError: log it and try again with the same params.
FetchFail ==
  /\ pc = "fetching"
  /\ WithinErrorLimit
  /\ MayRaise
  /\ LogError(page_id, "GraphAPIError")
  /\ NoteRaised
  /\ UNCHANGED <<config, feed, pc, run, srcIdx, cursor, response, idx,
                 parsed_post, post_data, endReason, fetched,
                 fb_posts_20161012, gen2, archVars>>

\* The request returns a page: reset the consecutive count and filter it.
FetchSuccess ==
  /\ pc = "fetching"
  /\ WithinErrorLimit
  /\ \E page \in Responses(page_id, cursor) :
       /\ feed' = Reveal(page_id, cursor, page)
       /\ response' = page
  /\ LogReset(page_id)
  /\ NoteAnswered
  /\ idx' = 1
  /\ fetched' = Append(fetched, cursor)
  /\ pc' = "filtering"
  /\ UNCHANGED <<config, run, srcIdx, cursor, parsed_post, post_data,
                 endReason, fb_posts_20161012, gen2, archVars>>

\* The while condition fails: the generator falls out of the loop and ends.
ErrorLimitExit ==
  /\ pc = "fetching"
  /\ ~WithinErrorLimit
  /\ endReason' = "errlimit"
  /\ pc' = "ended"
  /\ UNCHANGED <<config, feed, errors, consecutive, run, srcIdx, cursor,
                 response, idx, parsed_post, post_data, fetched,
                 fb_posts_20161012, outcomeHist, gen2, archVars>>

\* A filter that lets every post through.
KeepPostAnyType(post) == post.type \in {"link", "status"}

\* Only posts of type link are collected.
KeepPost(post) == post.type = "link"

\* A post of another type: the for loop goes on to the next post.
FilterSkip ==
  /\ pc = "filtering"
  /\ idx <= Len(response.data)
  /\ ~KeepPost(response.data[idx])
  /\ idx' = idx + 1
  /\ UNCHANGED <<config, feed, errors, consecutive, pc, run, srcIdx, cursor,
                 response, parsed_post, post_data, endReason, fetched,
                 fb_posts_20161012, outcomeHist, gen2, archVars>>

\* The record collect_feed_posts builds of a post and its resolved url (the
\* share count is copied from the post and left out).
ParsedPost(post, post_url) ==
  [post_id |-> post.id, link |-> post_url, base_url |-> get_base_url(post_url),
   created_time |-> post.created_time]

\* A link post is yielded with post_url as its link; the driver's list
\* comprehension takes it.
Yield(post, post_url) ==
  /\ parsed_post' = Bound(ParsedPost(post, post_url))
  /\ post_data' = Append(post_data, ParsedPost(post, post_url))
  /\ idx' = idx + 1

\* An unshorten_url that resets the count also when there is no url.
UnshortenAbsentResets(post) ==
  /\ post.link = None
  /\ LogReset(page_id)
  /\ NoteAnswered
  /\ Yield(post, None)

\* unshorten_url of no url: None, nothing logged.
UnshortenAbsent(post) ==
  /\ post.link = None
  /\ Yield(post, None)
  /\ UNCHANGED <<errors, consecutive, outcomeHist>>

\* unshorten_url, the HEAD request answers: the final url, the count reset.
UnshortenOk(post) ==
  /\ post.link # None
  /\ LogReset(page_id)
  /\ NoteAnswered
  /\ Yield(post, FinalUrl(post.link))

\* A failed HEAD request after which the post is left out.
UnshortenFailDropsPost(post) ==
  /\ post.link # None
  /\ MayRaise
  /\ LogError(page_id, "ConnectionError")
  /\ NoteRaised
  /\ idx' = idx + 1
  /\ UNCHANGED <<parsed_post, post_data>>

\* unshorten_url, the HEAD request raises: the error logged, None returned.
UnshortenFail(post) ==
  /\ post.link # None
  /\ MayRaise
  /\ LogError(page_id, "ConnectionError")
  /\ NoteRaised
  /\ Yield(post, None)

\* A link post: resolve its link and yield its record.
FilterLink ==
  /\ pc = "filtering"
  /\ idx <= Len(response.data)
  /\ KeepPost(response.data[idx])
  /\ \/ UnshortenAbsent(response.data[idx])
     \/ UnshortenOk(response.data[idx])
     \/ UnshortenFail(response.data[idx])
  /\ UNCHANGED <<config, feed, pc, run, srcIdx, cursor, response, endReason,
                 fetched, fb_posts_20161012, gen2, archVars>>

\* After the for loop: is there a next page, and is the last parsed post
\* still at or after through_date?  Reading parsed_post before any link post
\* was seen raises UnboundLocalError; comparing a created_time with a
\* through_date of None raises TypeError.
AdvanceOutcome ==
  IF response.next = NoCursor THEN "exhausted"
  ELSE IF parsed_post = Unbound THEN "UnboundLocalError"
  ELSE IF through_date = NoDate THEN "TypeError"
  ELSE IF ValueOf(parsed_post).created_time >= through_date THEN "next"
  ELSE "date"

Advance ==
  /\ pc = "filtering"
  /\ idx > Len(response.data)
  /\ CASE AdvanceOutcome = "next" ->
            /\ cursor' = response.next
            /\ pc' = "fetching"
            /\ endReason' = endReason
       [] AdvanceOutcome \in {"exhausted", "date"} ->
            /\ cursor' = cursor
            /\ pc' = "ended"
            /\ endReason' = AdvanceOutcome
       [] OTHER ->
            /\ cursor' = cursor
            /\ pc' = "raised"
            /\ endReason' = AdvanceOutcome
  /\ UNCHANGED <<config, feed, errors, consecutive, run, srcIdx, response,
                 idx, parsed_post, post_data, fetched, fb_posts_20161012,
                 outcomeHist, gen2, archVars>>

\* ------------------------------------------------------------- to_sql
\* DataFrame.drop_duplicates: each row once, the first occurrence kept.
RECURSIVE DropDuplicates(_)
DropDuplicates(rows) ==
  IF rows = <<>> THEN <<>>
  ELSE LET front == DropDuplicates(SubSeq(rows, 1, Len(rows) - 1))
           last == rows[Len(rows)]
       IN IF \E i \in 1..Len(front) : front[i] = last
          THEN front ELSE Append(front, last)

\* The rows of one page's crawl: the records with retrieved_on and page_id
\* (page_name goes with page_id and is left out).
PostRows(records, p, stamp) ==
  [i \in 1..Len(records) |->
     [post_id |-> records[i].post_id, link |-> records[i].link,
      base_url |-> records[i].base_url,
      created_time |-> records[i].created_time,
      retrieved_on |-> stamp, page_id |-> p]]

\* to_sql(..., if_exists='append'): the rows go after the table's rows.
ToSqlAppend(table, rows) == table \o rows

\* The generator is exhausted: the page's records are saved and the for loop
\* goes on to the next page.
SaveToSql ==
  /\ pc = "ended"
  /\ fb_posts_20161012' =
       ToSqlAppend(fb_posts_20161012,
                   DropDuplicates(PostRows(post_data, page_id, run)))
  /\ srcIdx' = srcIdx + 1
  /\ pc' = "driver"
  /\ UNCHANGED <<config, feed, errors, consecutive, run, cursor, response,
                 idx, parsed_post, post_data, endReason, fetched, outcomeHist,
                 gen2, archVars>>

\* ------------------------------------------------- a second generator
\* A caller other than save_all_page_feeds calls collect_feed_posts for the
\* first page of the crawler and advances the generator itself: first-page
\* params, the consecutive count set to zero.
CollectDirect ==
  /\ pc = "idle"
  /\ calls = 0
  /\ srcIdx = 0
  /\ Len(pages) >= 1
  /\ srcIdx' = 1
  /\ cursor' = 1
  /\ consecutive' = 0
  /\ response' = NoResponse
  /\ idx' = 0
  /\ parsed_post' = Unbound
  /\ post_data' = <<>>
  /\ endReason' = "none"
  /\ fetched' = <<>>
  /\ lastFailed' = FALSE
  /\ twoInRow' = FALSE
  /\ pc' = "fetching"
  /\ UNCHANGED <<config, feed, errors, run, fb_posts_20161012, gen2, archVars>>

\* The first generator is suspended at its yield: the for loop has just
\* passed a link post.
AtYield ==
  /\ pc = "filtering"
  /\ idx > 1
  /\ KeepPost(response.data[idx - 1])

\* The first generator is not running: not started, suspended or over.
Gen1Suspended == pc \in {"idle", "ended", "raised"} \/ AtYield

\* The page the second generator crawls, and its feed: one page with one link
\* post and no paging.next.
Gen2PageId == "B"

Gen2Feed ==
  <<[data |-> WithIds(<<[type |-> "link", link |-> "bit.ly/x",
                         created_time |-> 2]>>, 1),
     next |-> NoCursor]>>

\* k requests of the second generator that raise GraphAPIError, each logged.
Gen2Raised(k) == [i \in 1..k |-> "GraphAPIError"]

\* The caller advances a second generator, collect_feed_posts(Gen2PageId),
\* for the first time.  It runs until it yields or ends: the consecutive count
\* is set to zero; k requests raise; with k at the error limit the while loop
\* ends; else the request answers and resets the count, and the HEAD request
\* for the page's post answers (count reset) or raises (logged), and the
\* record is yielded.
Gen2First ==
  /\ gen2 = "none"
  /\ calls = 0
  /\ Gen2PageId \in DOMAIN errors
  /\ Gen1Suspended
  /\ \E k \in 0..error_limit :
       /\ TotalErrors(DOMAIN errors) + k <= MaxErrors
       /\ \/ /\ k = error_limit
             /\ errors' = [errors EXCEPT ![Gen2PageId] = @ \o Gen2Raised(k)]
             /\ consecutive' = k
             /\ feed' = feed
             /\ gen2' = "ended"
          \/ /\ k < error_limit
             /\ errors' = [errors EXCEPT ![Gen2PageId] = @ \o Gen2Raised(k)]
             /\ consecutive' = 0
             /\ feed' = [feed EXCEPT ![Gen2PageId] = Gen2Feed]
             /\ gen2' = "yielded"
          \/ /\ k < error_limit
             /\ TotalErrors(DOMAIN errors) + k < MaxErrors
             /\ errors' =
                  [errors EXCEPT ![Gen2PageId] =
                     Append(@ \o Gen2Raised(k), "ConnectionError")]
             /\ consecutive' = 1
             /\ feed' = [feed EXCEPT ![Gen2PageId] = Gen2Feed]
             /\ gen2' = "yielded"
  /\ UNCHANGED <<config, pc, run, srcIdx, cursor, response, idx, parsed_post,
                 post_data, endReason, fetched, fb_posts_20161012, outcomeHist,
                 archVars>>

\* The caller advances the second generator again: its for loop is over, the
\* page has no paging.next, and the generator returns.
Gen2Second ==
  /\ gen2 = "yielded"
  /\ Gen1Suspended
  /\ gen2' = "ended"
  /\ UNCHANGED <<config, feed, errors, consecutive, pc, run, srcIdx, cursor,
                 response, idx, parsed_post, post_data, endReason, fetched,
                 fb_posts_20161012, outcomeHist, archVars>>

\* ------------------------------------------------------------- archiver values
\* get_articles(chunksize=None), among numbers.
NoChunk == 0

\* The window collect_url_data takes when it is given none, in years.
RetrievedStart == 2000
RetrievedEnd == 2020

\* self.publications: each page's own site.
Publications == [p \in PageIdSet |-> IF p = "A" THEN "a.com" ELSE "b.com"]

\* ORDER BY page_id: the place of a page id among the page ids.
PageRank(p) == IF p = "A" THEN 1 ELSE 2
PageOrder == <<"A", "B">>

\* urlparse(url).netloc of the links of the archiver's table.
ArticleNetloc(url) ==
  CASE url \in {"a.com/1", "a.com/2", "a.com/3"} -> "a.com"
    [] url \in {"b.com/1", "b.com/2"} -> "b.com"
    [] url = "cnn.com/1" -> "cnn.com"
    [] OTHER -> None

PostRow(p, url, time, year) ==
  [page_id |-> p, link |-> url, base_url |-> ArticleNetloc(url),
   created_time |-> time, retrieved_on |-> year]

\* The rows fb_posts may hold: three posts of A's own site, newest first; the
\* first of them seen once more at the oldest time; a post of B's own site, one
\* of B linking elsewhere, one of B whose link did not resolve, and one of B
\* retrieved after the window.
PostRowUniverse ==
  {PostRow("A", "a.com/1", 3, 2016), PostRow("A", "a.com/2", 2, 2016),
   PostRow("A", "a.com/3", 1, 2016), PostRow("A", "a.com/1", 1, 2016),
   PostRow("B", "b.com/1", 3, 2016), PostRow("B", "cnn.com/1", 2, 2016),
   PostRow("B", None, 1, 2016), PostRow("B", "b.com/2", 2, 2021)}

\* ------------------------------------------------------------- collect_url_data
\* WHERE retrieved_on >= start and retrieved_on <= end
InWindow(row) ==
  row.retrieved_on >= RetrievedStart /\ row.retrieved_on <= RetrievedEnd

MinOf(S) == CHOOSE t \in S : \A u \in S : t <= u

\* GROUP BY page_id, base_url, link with min(created_time).
Grouped(table) ==
  {[page_id |-> r.page_id, base_url |-> r.base_url, link |-> r.link,
    created_time |->
      MinOf({q.created_time : q \in
               {x \in table : /\ x.page_id = r.page_id
                              /\ x.base_url = r.base_url
                              /\ x.link = r.link}})] : r \in table}

RECURSIVE Orderings(_)
Orderings(S) ==
  IF S = {} THEN {<<>>}
  ELSE UNION {{<<x>> \o rest : rest \in Orderings(S \ {x})} : x \in S}

\* ROW_NUMBER() OVER (PARTITION BY page_id ...): the place of row i among the
\* rows of its page.
RowId(rows, i) ==
  Cardinality({k \in 1..i : rows[k].page_id = rows[i].page_id})

\* A query that orders by page_id first: ORDER BY page_id, Row_ID.
IsPageMajorOrder(rows) ==
  \A i, j \in 1..Len(rows) :
    i < j =>
      /\ rows[i].page_id = rows[j].page_id =>
           rows[i].created_time >= rows[j].created_time
      /\ PageRank(rows[i].page_id) <= PageRank(rows[j].page_id)

\* The orders the query may return its rows in: within a page by
\* min(created_time) descending (rows of equal time in either order), and over
\* all by Row_ID, then page_id.
IsQueryOrder(rows) ==
  \A i, j \in 1..Len(rows) :
    i < j =>
      /\ rows[i].page_id = rows[j].page_id =>
           rows[i].created_time >= rows[j].created_time
      /\ \/ RowId(rows, i) < RowId(rows, j)
         \/ /\ RowId(rows, i) = RowId(rows, j)
            /\ PageRank(rows[i].page_id) < PageRank(rows[j].page_id)

QueryResults(table) ==
  {rows \in Orderings(Grouped({r \in table : InWindow(r)})) :
     IsQueryOrder(rows)}

\* A read that stops after the first n rows.
FirstChunkOnly(rows, n) ==
  IF Len(rows) <= n THEN <<rows>> ELSE <<SubSeq(rows, 1, n)>>

\* read_sql(..., chunksize=n): the rows n at a time.
RECURSIVE InChunksOf(_, _)
InChunksOf(rows, n) ==
  IF Len(rows) <= n THEN <<rows>>
  ELSE <<SubSeq(rows, 1, n)>> \o InChunksOf(SubSeq(rows, n + 1, Len(rows)), n)

\* What collect_url_data returns for the rows of the query: one frame with all
\* of them when chunksize is not given; else the chunks, and for no rows
\* either no chunk or one empty chunk (the pandas versions differ).
ChunksOf(rows, n) ==
  IF n = NoChunk THEN {<<rows>>}
  ELSE IF rows = <<>> THEN {<<>>, <<rows>>}
  ELSE {InChunksOf(rows, n)}

\* ------------------------------------------------------------- build_articlesets
\* base_url.str.contains(pattern, na=False): the pattern occurs in the base url;
\* no base url counts as no match.  None of the base urls here is part of
\* another one, so a pattern occurs only in the base url equal to it.
Contains(base_url, pattern) == base_url # None /\ base_url = pattern

\* create_article: nothing downloaded, no text yet.
NewArticle(row) ==
  [url |-> row.link, date |-> row.created_time, html |-> "", text |-> ""]

RECURSIVE ArticlesOf(_, _)
ArticlesOf(df, p) ==
  IF df = <<>> THEN <<>>
  ELSE LET front == ArticlesOf(SubSeq(df, 1, Len(df) - 1), p)
           last == df[Len(df)]
       IN IF last.page_id = p /\ Contains(last.base_url, Publications[p])
          THEN Append(front, NewArticle(last)) ELSE front

HasPage(df, p) == \E i \in 1..Len(df) : df[i].page_id = p

\* One ArticleSet per page of the frame, in the order groupby lists the pages,
\* holding the page's rows that link to the page's own site.
RECURSIVE BuildFor(_, _)
BuildFor(df, ps) ==
  IF ps = <<>> THEN <<>>
  ELSE LET rest == BuildFor(df, Tail(ps))
       IN IF HasPage(df, Head(ps))
          THEN <<[pub_id |-> Head(ps), articles |-> ArticlesOf(df, Head(ps))]>>
                 \o rest
          ELSE rest

build_articlesets(df) == BuildFor(df, PageOrder)

\* ------------------------------------------------------------- download_articles
\* What happens to one article: the download fails (no html), parse() raises,
\* parse() finds no text, or parse() finds the text.
Outcomes == {"nohtml", "raises", "notext", "text"}

RECURSIVE Downloaded(_, _)
\* Source.download_articles: each article gets its html; those without are
\* dropped from self.articles.  Each kept article goes with its outcome.
Downloaded(arts, out) ==
  IF arts = <<>> THEN <<>>
  ELSE LET n == Len(arts)
           front == Downloaded(SubSeq(arts, 1, n - 1), SubSeq(out, 1, n - 1))
       IN IF out[n] = "nohtml" THEN front
          ELSE Append(front, [art |-> [arts[n] EXCEPT !.html = "html"],
                              out |-> out[n]])

\* The first kept article whose parse() raises; past the end when none does.
FirstRaise(kept) ==
  IF \E i \in 1..Len(kept) : kept[i].out = "raises"
  THEN MinOf({i \in 1..Len(kept) : kept[i].out = "raises"})
  ELSE Len(kept) + 1

\* for article in self.articles: article.parse().  An exception of parse()
\* leaves the loop: the articles after it are not parsed.
ParsedUpTo(kept, stop) ==
  [i \in 1..Len(kept) |->
     IF i < stop /\ kept[i].out = "text"
     THEN [kept[i].art EXCEPT !.text = "body"]
     ELSE kept[i].art]

download_articles(arts, out) ==
  LET kept == Downloaded(arts, out)
  IN ParsedUpTo(kept, FirstRaise(kept))

\* The urls of a group whose download and parse succeed with a text.
Extracts(arts, out) == {arts[i].url : i \in {k \in 1..Len(arts) : out[k] = "text"}}

\* ------------------------------------------------------------- save_articles
\* The rows of one ArticleSet without the test of a.text.
ArticleRowsAnyText(arts, p, stamp) ==
  [i \in 1..Len(arts) |->
     [url |-> arts[i].url, page_id |-> p, page_base_url |-> Publications[p],
      text |-> arts[i].text, date |-> arts[i].date, retrieved_on |-> stamp]]

RECURSIVE ArticleRows(_, _, _)
\* The rows of one ArticleSet: its articles that have a text.
ArticleRows(arts, p, stamp) ==
  IF arts = <<>> THEN <<>>
  ELSE LET front == ArticleRows(SubSeq(arts, 1, Len(arts) - 1), p, stamp)
           a == arts[Len(arts)]
       IN IF a.text # ""
          THEN Append(front, [url |-> a.url, page_id |-> p,
                              page_base_url |-> Publications[p],
                              text |-> a.text, date |-> a.date,
                              retrieved_on |-> stamp])
          ELSE front

RECURSIVE save_articles(_, _, _)
\* Each ArticleSet's rows are appended to the table, set after set.
save_articles(table, asets, stamp) ==
  IF asets = <<>> THEN table
  ELSE save_articles(
         table \o ArticleRows(Head(asets).articles, Head(asets).pub_id, stamp),
         Tail(asets), stamp)

\* ------------------------------------------------------------- get_articles
\* get_articles is called: collect_url_data runs the query.
GetArticles ==
  /\ apc = "idle"
  /\ arun < acalls
  /\ arun' = arun + 1
  /\ \E rows \in QueryResults(fb_posts) :
       \E chunks \in ChunksOf(rows, chunksize) : pub_url_data' = chunks
  /\ batchNo' = 1
  /\ apc' = "loop"
  /\ UNCHANGED <<archConfig, articlesets, pending, articles, extractable,
                 crawlVars>>

\* The for loop takes a chunk with rows: build_articlesets, then
\* news_pool.set queues one download_articles task for each ArticleSet.
BuildAndSet ==
  /\ apc = "loop"
  /\ batchNo <= Len(pub_url_data)
  /\ pub_url_data[batchNo] # <<>>
  /\ articlesets' = build_articlesets(pub_url_data[batchNo])
  /\ pending' = {[batch |-> batchNo, set |-> k] :
                   k \in 1..Len(build_articlesets(pub_url_data[batchNo]))}
  /\ apc' = "pooled"
  /\ UNCHANGED <<archConfig, arun, pub_url_data, batchNo, articles,
                 extractable, crawlVars>>

\* The for loop takes a chunk without rows: min(df['created_time']) raises
\* ValueError and get_articles ends with it.
BuildRaises ==
  /\ apc = "loop"
  /\ batchNo <= Len(pub_url_data)
  /\ pub_url_data[batchNo] = <<>>
  /\ apc' = "raised"
  /\ UNCHANGED <<archConfig, arun, pub_url_data, batchNo, articlesets,
                 pending, articles, extractable, crawlVars>>

\* A worker of news_pool runs the download_articles of one ArticleSet; an
\* exception of it is caught by the worker, and the task is done either way.
RunGroup ==
  /\ \E t \in pending :
       \E out \in [1..Len(articlesets[t.set].articles) -> Outcomes] :
         /\ articlesets' =
              [articlesets EXCEPT ![t.set].articles = download_articles(@, out)]
         /\ extractable' =
              extractable \cup
                {[run |-> arun, batch |-> t.batch, url |-> u] :
                   u \in Extracts(articlesets[t.set].articles, out)}
         /\ pending' = pending \ {t}
  /\ UNCHANGED <<archConfig, arun, apc, pub_url_data, batchNo, articles,
                 crawlVars>>

\* A join that does not wait for the tasks.
JoinReturnsAtOnce == TRUE

\* news_pool.join() returns when every queued task is done.
JoinReturns == pending = {}

Join ==
  /\ apc = "pooled"
  /\ JoinReturns
  /\ apc' = "joined"
  /\ UNCHANGED <<archConfig, arun, pub_url_data, batchNo, articlesets,
                 pending, articles, extractable, crawlVars>>

\* save_articles(articlesets), and the for loop goes on to the next chunk.
SaveArticles ==
  /\ apc = "joined"
  /\ articles' = save_articles(articles, articlesets, arun)
  /\ batchNo' = batchNo + 1
  /\ apc' = "loop"
  /\ UNCHANGED <<archConfig, arun, pub_url_data, articlesets, pending,
                 extractable, crawlVars>>

\* No chunk is left: get_articles returns.
ArchiveReturn ==
  /\ apc = "loop"
  /\ batchNo > Len(pub_url_data)
  /\ apc' = "idle"
  /\ UNCHANGED <<archConfig, arun, pub_url_data, batchNo, articlesets,
                 pending, articles, extractable, crawlVars>>

\* ------------------------------------------------------------- specification
\* No archiver at work.
ArchiverIdle ==
  /\ fb_posts = {}
  /\ chunksize = NoChunk
  /\ acalls = 0
  /\ arun = 0
  /\ apc = "idle"
  /\ pub_url_data = <<>>
  /\ batchNo = 0
  /\ articlesets = <<>>
  /\ pending = {}
  /\ articles = <<>>
  /\ extractable = {}

\* A crawler of one page.
Init == InitCrawlOf(<<"A">>, 1) /\ ArchiverIdle

NextCrawl ==
  \/ SaveAllPageFeeds
  \/ StartCrawl
  \/ DriverReturn
  \/ FetchFail
  \/ FetchSuccess
  \/ ErrorLimitExit
  \/ FilterSkip
  \/ FilterLink
  \/ Advance
  \/ SaveToSql

Next == NextCrawl

Spec == Init /\ [][Next]_vars

\* A caller that runs save_all_page_feeds again over the same upstream feed.
InitReplay == InitCrawlOf(<<"A">>, MaxRuns) /\ ArchiverIdle
ReplaySpec == InitReplay /\ [][Next]_vars

\* No crawler at work.
CrawlerIdle ==
  /\ InitCrawlOf(<<>>, 0)
  /\ error_limit = 1
  /\ through_date = NoDate

\* __init__ of the archiver over a table of up to MaxRows rows, and the
\* chunksize and the number of calls of get_articles.
InitArchiveOf(tables, sizes, nCalls) ==
  /\ fb_posts \in tables
  /\ chunksize \in sizes
  /\ acalls = nCalls
  /\ arun = 0
  /\ apc = "idle"
  /\ pub_url_data = <<>>
  /\ batchNo = 0
  /\ articlesets = <<>>
  /\ pending = {}
  /\ articles = <<>>
  /\ extractable = {}

Tables == {t \in SUBSET PostRowUniverse : Cardinality(t) <= MaxRows}
ChunkSizes == {NoChunk} \cup 1..MaxChunk

InitArchive == CrawlerIdle /\ InitArchiveOf(Tables, ChunkSizes, 1)

NextArchive ==
  \/ GetArticles
  \/ BuildAndSet
  \/ BuildRaises
  \/ RunGroup
  \/ Join
  \/ SaveArticles
  \/ ArchiveReturn

ArchiveSpec == InitArchive /\ [][NextArchive]_vars

\* A caller that runs get_articles again over the same table.
InitRerun == CrawlerIdle /\ InitArchiveOf(Tables, ChunkSizes, MaxRuns)
RerunSpec == InitRerun /\ [][NextArchive]_vars

\* The program takes its next step whenever it has one: every request
\* returns or raises.
FairSpec == Init /\ [][Next]_vars /\ WF_vars(Next)

\* ------------------------------------------------------------- claims
Crawling == pc \in {"fetching", "filtering"}

\* C1: one crawl of one source always terminates, and it ends by cursor
\* exhaustion, by the date boundary or by the error budget: a crawl that has
\* started reaches the generator's normal end.
C1_CrawlEndsByDesign == (pc = "fetching") ~> (pc = "ended")

\* C2: once the source has failed error_limit times in a row, the crawl makes
\* no further Graph API request, resolves no further link and yields no further
\* record.
C2_StopsAtErrorLimit ==
  [][(Crawling /\ consecutive >= error_limit)
       => (fetched' = fetched /\ errors' = errors /\ post_data' = post_data)]_vars

RECURSIVE LinkIds(_)
LinkIds(data) ==
  IF data = <<>> THEN <<>>
  ELSE LET front == LinkIds(SubSeq(data, 1, Len(data) - 1))
           last == data[Len(data)]
       IN IF last.type = "link" THEN Append(front, last.id) ELSE front

\* The link posts of the feed pages numbered in nums, page after page.
RECURSIVE LinkIdsOfPages(_, _)
LinkIdsOfPages(f, nums) ==
  IF nums = <<>> THEN <<>>
  ELSE LinkIdsOfPages(f, SubSeq(nums, 1, Len(nums) - 1))
         \o LinkIds(f[nums[Len(nums)]].data)

YieldedIds == [i \in 1..Len(post_data) |-> post_data[i].post_id]

\* C4: the records yielded for a source are the link posts of the pages
\* fetched successfully, each once and in pagination order, whatever failures
\* came in between; while a page is being filtered, those of the pages before
\* it and of the posts of it passed so far.
C4_YieldsLinkPostsInOrder ==
  /\ pc \in {"fetching", "ended", "raised"} =>
       YieldedIds = LinkIdsOfPages(feed[page_id], fetched)
  /\ pc = "filtering" =>
       YieldedIds =
         LinkIdsOfPages(feed[page_id], SubSeq(fetched, 1, Len(fetched) - 1))
           \o LinkIds(SubSeq(response.data, 1, idx - 1))

\* A crawl that ended after two pages, a failed request, a post that was
\* filtered out and a record that was yielded.
C4_Witness ==
  /\ pc = "ended"
  /\ Len(fetched) = 2
  /\ errors["A"] # <<>>
  /\ post_data # <<>>
  /\ \E n \in 1..Len(feed["A"]) : \E k \in 1..Len(feed["A"][n].data) :
       feed["A"][n].data[k].type = "status"

\* C5: when save_all_page_feeds runs again over the same feed, no row is
\* appended whose page and post id the table already holds.
C5_ReplayAppendsNothing ==
  [][\A i \in (Len(fb_posts_20161012) + 1)..Len(fb_posts_20161012') :
       \A j \in 1..Len(fb_posts_20161012) :
         ~(/\ fb_posts_20161012'[i].page_id = fb_posts_20161012[j].page_id
           /\ fb_posts_20161012'[i].post_id = fb_posts_20161012[j].post_id)]_vars

\* ------------------------------------------------------------- archiver claims
\* The records of page p in a chunk.
CountIn(chunk, p) ==
  Cardinality({i \in 1..Len(chunk) : chunk[i].page_id = p})

\* Page p has records left after chunk number b.
HasLater(b, p) ==
  \E c \in (b + 1)..Len(pub_url_data) : HasPage(pub_url_data[c], p)

Differ(m, n) == IF m >= n THEN m - n ELSE n - m

CeilDiv(m, n) == (m + n - 1) \div n

\* The sources of the pending pool.
PoolSources ==
  {p \in PageIdSet : \E b \in 1..Len(pub_url_data) : HasPage(pub_url_data[b], p)}

RECURSIVE LinksOf(_, _)
\* The links of page p in a chunk, in the chunk's order.
LinksOf(chunk, p) ==
  IF chunk = <<>> THEN <<>>
  ELSE LET front == LinksOf(SubSeq(chunk, 1, Len(chunk) - 1), p)
           last == chunk[Len(chunk)]
       IN IF last.page_id = p THEN Append(front, last.link) ELSE front

\* The pool {A: [r1, r2, r3], B: [r4]}.
ExamplePool ==
  {PostRow("A", "a.com/1", 3, 2016), PostRow("A", "a.com/2", 2, 2016),
   PostRow("A", "a.com/3", 1, 2016), PostRow("B", "b.com/1", 3, 2016)}

\* C7: with a chunksize, every batch holds at most ceil(chunksize / numSources)
\* records of any one source; and the pool {A: [r1, r2, r3], B: [r4]} with a
\* target of 2 per source gives {A: [r1, r2], B: [r4]} and then {A: [r3]}.
C7_PerSourceCap ==
  (apc # "idle" /\ chunksize # NoChunk) =>
    /\ \A b \in 1..Len(pub_url_data) : \A p \in PoolSources :
         CountIn(pub_url_data[b], p)
           <= CeilDiv(chunksize, Cardinality(PoolSources))
    /\ (fb_posts = ExamplePool /\ CeilDiv(chunksize, 2) = 2) =>
         /\ Len(pub_url_data) = 2
         /\ LinksOf(pub_url_data[1], "A") = <<"a.com/1", "a.com/2">>
         /\ LinksOf(pub_url_data[1], "B") = <<"b.com/1">>
         /\ LinksOf(pub_url_data[2], "A") = <<"a.com/3">>
         /\ LinksOf(pub_url_data[2], "B") = <<>>

\* C8: save_articles of a batch starts only when every download_articles task
\* of the batch is done, and tasks run only for the batch the for loop is at,
\* between news_pool.set and the join: the batches before it are saved, and no
\* task of a later batch has started.
C8_OneBatchInFlight ==
  /\ apc = "joined" => pending = {}
  /\ \A t \in pending : t.batch = batchNo /\ apc = "pooled"

\* The second batch, of two sources, is joined and about to be saved, the
\* first one being saved with an article.
C8_Witness ==
  /\ apc = "joined"
  /\ batchNo = 2
  /\ Len(articlesets) = 2
  /\ articles # <<>>

\* C9: every article of a saved batch whose extraction succeeds is in the
\* articles table, whatever happened to the other articles of its group and of
\* the other groups.
C9_FailureIsolated ==
  \A g \in extractable :
    (g.run < arun \/ g.batch < batchNo) =>
      \E i \in 1..Len(articles) :
        articles[i].url = g.url /\ articles[i].retrieved_on = g.run

\* C10: a post that has an article in the articles table is not fetched and
\* appended again: no step appends a row whose url and page the table holds.
C10_NoSecondAppend ==
  [][\A i \in (Len(articles) + 1)..Len(articles') :
       \A j \in 1..Len(articles) :
         ~(/\ articles'[i].url = articles[j].url
           /\ articles'[i].page_id = articles[j].page_id)]_vars

\* ------------------------------------------------------------- crawler claims, continued
\* The page whose crawl is over: the one that raised, or the one before the
\* driver's place.
CrawledPage == IF pc = "raised" THEN page_id ELSE pages[srcIdx - 1]

CrawlOver == pc = "raised" \/ (pc \in {"driver", "idle"} /\ srcIdx > 1)

\* C11: when the crawl of a source is over, whichever way it ended, every
\* record it yielded is in the table save_all_page_feeds appends to.
C11_YieldedIsSaved ==
  CrawlOver =>
    \A i \in 1..Len(post_data) :
      \E j \in 1..Len(fb_posts_20161012) :
        /\ fb_posts_20161012[j].post_id = post_data[i].post_id
        /\ fb_posts_20161012[j].page_id = CrawledPage

\* A crawler of two pages.
InitPair == InitCrawlOf(<<"A", "B">>, 1) /\ ArchiverIdle
PairSpec == InitPair /\ [][Next]_vars

\* C12: whatever happens while one source is crawled, save_all_page_feeds is
\* not stopped while a source of its list is still to be crawled.
C12_DriverGoesOn == ~(pc = "raised" /\ srcIdx < Len(pages))

\* C14: a step that logs a failed request leaves the cursor as it is and the
\* crawl at the same request; the cursor changes only when a crawl starts and
\* when the paging test after a filtered page takes the page's next cursor; and
\* the pages fetched are the first, the second and so on, none left out.
C14_RetrySameCursor ==
  [][/\ (pc = "fetching" /\ errors' # errors) =>
          (cursor' = cursor /\ pc' = "fetching")
     /\ (cursor' # cursor) =>
          \/ pc = "driver" /\ cursor' = 1
          \/ /\ pc = "filtering" /\ idx > Len(response.data)
             /\ response.next # NoCursor /\ cursor' = response.next
     /\ (fetched' # fetched /\ fetched' # <<>>) =>
          fetched' = Append(fetched, Len(fetched) + 1)]_vars

\* The request for the second page has just failed, and the crawl is about to
\* ask for the second page again.
C14_Witness ==
  /\ pc = "fetching"
  /\ cursor = 2
  /\ fetched = <<1>>
  /\ lastFailed
  /\ errors["A"][Len(errors["A"])] = "GraphAPIError"
  /\ WithinErrorLimit

\* The for loop over the page's posts is done: the paging test is next.
AtPagingTest == pc = "filtering" /\ idx > Len(response.data)

\* The page names a next page, and the last record filtered so far is at or
\* after through_date.
NextAndInDate ==
  /\ response.next # NoCursor
  /\ parsed_post # Unbound
  /\ through_date # NoDate
  /\ ValueOf(parsed_post).created_time >= through_date

\* C15: the step after a filtered page either takes the page's next cursor and
\* fetches again, which it does only with a next cursor and a last filtered
\* record at or after the date bound, and always when both hold; or it ends the
\* crawl as exhausted or as having reached the date boundary.
C15_AdvanceOrFinish ==
  [][AtPagingTest =>
       /\ pc' \in {"fetching", "ended"}
       /\ pc' = "fetching" =>
            /\ response.next # NoCursor /\ cursor' = response.next
            /\ parsed_post # Unbound
            /\ through_date # NoDate =>
                 ValueOf(parsed_post).created_time >= through_date
       /\ pc' = "ended" =>
            (endReason' \in {"exhausted", "date"} /\ ~NextAndInDate)]_vars

\* The for loop is at a post of the page.
AtPost == pc = "filtering" /\ idx <= Len(response.data)

\* The step yielded a record of the post the for loop was at.
YieldedHere ==
  /\ Len(post_data') = Len(post_data) + 1
  /\ SubSeq(post_data', 1, Len(post_data)) = post_data
  /\ post_data'[Len(post_data')].post_id = response.data[idx].id

\* C16: a HEAD request of unshorten_url that raises logs one error for the
\* page, and the post is still yielded, with no link and no base url; the for
\* loop goes on over the same page whatever the count of errors is, and yields
\* a record for every link post it comes to; and every record yielded with a
\* resolved link leaves the consecutive count at zero.
C16_ResolveFailureKeepsPage ==
  [][AtPost =>
       /\ pc' = "filtering" /\ idx' = idx + 1 /\ response' = response
       /\ KeepPost(response.data[idx]) => YieldedHere
       /\ errors' # errors =>
            /\ errors' = [errors EXCEPT ![page_id] = Append(@, "ConnectionError")]
            /\ YieldedHere
            /\ post_data'[Len(post_data')].link = None
            /\ post_data'[Len(post_data')].base_url = None
       /\ (YieldedHere /\ post_data'[Len(post_data')].link # None) =>
            consecutive' = 0]_vars

\* With an error limit of one: the first link post of a page failed to resolve
\* and was yielded without link, and the link post after it was resolved and
\* yielded, the count back at zero.
C16_Witness ==
  /\ pc = "filtering"
  /\ error_limit = 1
  /\ idx = 3
  /\ Len(post_data) = 2
  /\ response.data[1].link # None
  /\ post_data[1].link = None /\ post_data[1].base_url = None
  /\ post_data[2].link = "a.com/x" /\ post_data[2].base_url = "a.com"
  /\ errors["A"] = <<"ConnectionError">>
  /\ consecutive = 0

\* The step is a request of the crawl that answered: a feed page fetched, or a
\* record yielded with its resolved link.
RequestAnswered ==
  \/ fetched' # fetched /\ fetched' # <<>>
  \/ /\ Len(post_data') = Len(post_data) + 1
     /\ post_data'[Len(post_data')].link # None

\* C18: in one crawl the consecutive count is the number of failures logged
\* since the last request that answered, or since the crawl started: zero at
\* the start, one more with every failure, zero after every success and
\* unchanged otherwise; and the page's error history only grows: a failure
\* appends one entry, and no other step changes an entry.
C18_CountAndHistory ==
  [][/\ (pc = "driver" /\ pc' = "fetching") =>
          (consecutive' = 0 /\ errors' = errors)
     /\ errors' # errors =>
          /\ Crawling
          /\ \E e \in {"GraphAPIError", "ConnectionError"} :
               errors' = [errors EXCEPT ![page_id] = Append(@, e)]
          /\ consecutive' = consecutive + 1
     /\ (Crawling /\ RequestAnswered) =>
          (consecutive' = 0 /\ errors' = errors)
     /\ (Crawling /\ errors' = errors /\ ~RequestAnswered) =>
          consecutive' = consecutive]_vars

\* A failure, then a success, then two failures in a row: three entries in
\* the history and a count of two.
C18_Witness ==
  /\ Crawling
  /\ Len(errors["A"]) = 3
  /\ consecutive = 2
  /\ twoInRow

\* C20: for a link post without a link, unshorten_url makes no request and
\* logs nothing: the error history and the consecutive count stay as they
\* are, neither raised nor reset, and the post's record is yielded with no
\* link and no base url.
C20_AbsentUrlIsNoError ==
  [][(AtPost /\ KeepPost(response.data[idx]) /\ response.data[idx].link = None)
       => /\ errors' = errors
          /\ consecutive' = consecutive
          /\ outcomeHist' = outcomeHist
          /\ YieldedHere
          /\ post_data'[Len(post_data')].link = None
          /\ post_data'[Len(post_data')].base_url = None]_vars

\* A link of the page failed to resolve, and the post after it, which has no
\* link, was yielded: the count is still one.
C20_Witness ==
  /\ pc = "filtering"
  /\ idx = 3
  /\ response.data[1].link # None
  /\ response.data[2].type = "link" /\ response.data[2].link = None
  /\ Len(post_data) = 2
  /\ post_data[2].link = None /\ post_data[2].base_url = None
  /\ errors["A"] = <<"ConnectionError">>
  /\ consecutive = 1

\* A crawler of two pages whose caller advances two generators in turn, one
\* for each page.
InitInterleaved == InitCrawlOf(<<"A", "B">>, 0) /\ ArchiverIdle

NextInterleaved ==
  \/ CollectDirect
  \/ FetchFail
  \/ FetchSuccess
  \/ ErrorLimitExit
  \/ FilterSkip
  \/ FilterLink
  \/ Advance
  \/ Gen2First
  \/ Gen2Second

InterleavedSpec == InitInterleaved /\ [][NextInterleaved]_vars

\* C17: while the crawl of one page is under way, a step of the crawl of
\* another page, whether it records a success or a failure, leaves the
\* consecutive count of the first as it is; and a crawl is ended by the
\* error limit only when its own last request failed.
C17_CountPerSource ==
  [][/\ (Crawling /\ gen2' # gen2) => consecutive' = consecutive
     /\ endReason' = "errlimit" => lastFailed']_vars

\* ------------------------------------------------------------- archiver claims, continued
\* C13: every row of the articles table has a text that is not empty, and is
\* of an article whose extraction gave a text in the run that saved it: an
\* article without text is never written.
C13_SavedHasText ==
  \A i \in 1..Len(articles) :
    /\ articles[i].text # ""
    /\ \E g \in extractable :
         g.url = articles[i].url /\ g.run = articles[i].retrieved_on

\* A batch was saved whose first group held an article with a text and one
\* without, and whose second group held only articles without text: one row.
C13_Witness ==
  /\ apc = "loop"
  /\ batchNo = 2
  /\ Len(articlesets) = 2
  /\ \E i, j \in 1..Len(articlesets[1].articles) :
       /\ articlesets[1].articles[i].text # ""
       /\ articlesets[1].articles[j].text = ""
  /\ articlesets[2].articles # <<>>
  /\ \A i \in 1..Len(articlesets[2].articles) :
       articlesets[2].articles[i].text = ""
  /\ Len(articles) = 1

\* The pending pool: the rows of the query, one for each page, base url and
\* link of the table's rows in the window.
Pool == Grouped({r \in fb_posts : InWindow(r)})

\* The places a row takes in the batches.
PlacesOf(r) ==
  {<<b, i>> \in (1..Len(pub_url_data)) \X (1..MaxRows) :
     i <= Len(pub_url_data[b]) /\ pub_url_data[b][i] = r}

\* C19: once collect_url_data has returned, its batches are a partition of
\* the pool: every record of the pool is in exactly one batch and the batches
\* hold nothing else; of two records of one source in different batches, the
\* one in the earlier batch is not the older one; and without a chunksize
\* there is exactly one batch.
C19_BatchesPartitionPool ==
  arun >= 1 =>
    /\ \A r \in Pool : Cardinality(PlacesOf(r)) = 1
    /\ \A b \in 1..Len(pub_url_data) : \A i \in 1..Len(pub_url_data[b]) :
         pub_url_data[b][i] \in Pool
    /\ \A b1, b2 \in 1..Len(pub_url_data) :
         \A i \in 1..Len(pub_url_data[b1]) : \A j \in 1..Len(pub_url_data[b2]) :
           (b1 < b2 /\ pub_url_data[b1][i].page_id = pub_url_data[b2][j].page_id)
             => pub_url_data[b1][i].created_time
                  >= pub_url_data[b2][j].created_time
    /\ chunksize = NoChunk => Len(pub_url_data) = 1

\* A pool of five records of two sources came in three batches of two, two
\* and one, the first source with records of three different times.
C19_Witness ==
  /\ apc = "loop"
  /\ chunksize = 2
  /\ Cardinality(Pool) = 5
  /\ Len(pub_url_data) = 3
  /\ CountIn(pub_url_data[1], "A") = 1
  /\ CountIn(pub_url_data[2], "A") = 1
  /\ CountIn(pub_url_data[3], "A") = 1

====
